---- MODULE Spec2Model ----
(***************************************************************************)
(* Model of the request layer of cli2jira: the input validators of         *)
(* utils.py, the error taxonomy of exceptions.py and the two retrying      *)
(* request functions of jira_api.py (make_api_request, search_issues).     *)
(*                                                                         *)
(* A Python str is a sequence of atoms.  Raw urls and tokens are           *)
(* sequences of one-character atoms, so that strip, startswith and rstrip  *)
(* act character by character; literal chunks of messages are single       *)
(* atoms and an f-string is the concatenation of its parts.                *)
(***************************************************************************)
EXTENDS Integers, Sequences, FiniteSets, TLC

VARIABLES
    \* ---- one call of make_api_request / search_issues ----
    pc,             \* position in the call: "off", "entry", "loop", "sleep", "done"
    args,           \* the arguments the caller passed (never assigned by the call)
    jira_url,       \* local jira_url after line 21 / 97
    jira_token,     \* local jira_token after line 22 / 98
    attempt,        \* loop variable of "for attempt in range(max_retries)"
    retry_delay,    \* local retry_delay (doubled at line 84)
    last_exception, \* local last_exception
    raised,         \* the exception raised inside the try body of the latest attempt
    sent,           \* the requests handed to requests.get / requests.post, in order
    trace,          \* what the transport answered to each of them, in order
    sleeps,         \* the arguments of the time.sleep calls, in order
    outcome,        \* how the call ended: nothing yet, a returned value or a raised error
    \* ---- the validators applied to raw input (setup_environment, then a request) ----
    vpc,            \* "off", "input", "once", "twice"
    raw_url,        \* the url the user or the environment supplied
    raw_token,      \* the token the user or the environment supplied
    once,           \* result of the validation of the raw input (auth.py 74-75)
    twice,          \* result of validating the normalized value again (jira_api.py 21-22)
    \* ---- one run of a command-line script (main of jira_create / jira_list) ----
    script,         \* the script that runs
    cpc,            \* position in main: the prompt or API call it is blocked in
    project_key,    \* local project_key
    jql_clauses,    \* local jql_clauses of the search flow
    fields_left,    \* required and optional fields still to prompt for
    api_calls,      \* the calls of make_api_request / search_issues made so far
    interrupted,    \* a KeyboardInterrupt has been delivered to the run
    typed,          \* the prompt that returned last and the value main took from it
    exit            \* how the process ended, once it has

callVars == <<pc, args, jira_url, jira_token, attempt, retry_delay, last_exception,
              raised, sent, trace, sleeps, outcome>>
valVars == <<vpc, raw_url, raw_token, once, twice>>
cliVars == <<script, cpc, project_key, jql_clauses, fields_left, api_calls, interrupted,
             typed, exit>>
vars == <<pc, args, jira_url, jira_token, attempt, retry_delay, last_exception,
          raised, sent, trace, sleeps, outcome, vpc, raw_url, raw_token, once, twice,
          script, cpc, project_key, jql_clauses, fields_left, api_calls, interrupted,
          typed, exit>>

-----------------------------------------------------------------------------
(* Bounds of the model *)

\* longest body of a raw url (after optional blank and scheme)
MaxUrlBody == 3
\* largest max_retries a caller passes
MaxRetries == 3
\* longest run of token characters in a raw token
MaxTokenLen == 11

-----------------------------------------------------------------------------
(* Python str operations *)

IsSpace(c) == c = " "

RECURSIVE lstrip(_)
lstrip(s) == IF s # <<>> /\ IsSpace(Head(s)) THEN lstrip(Tail(s)) ELSE s

RECURSIVE rstrip(_)
rstrip(s) == IF s # <<>> /\ IsSpace(s[Len(s)]) THEN rstrip(SubSeq(s, 1, Len(s) - 1)) ELSE s

\* str.strip(): leading and trailing whitespace removed
strip(s) == rstrip(lstrip(s))

\* str.startswith(p)
startswith(s, p) == Len(s) >= Len(p) /\ SubSeq(s, 1, Len(p)) = p

\* a faulty variant of rstrip_slash: only one trailing "/" is removed
rstrip_slash_one(s) == IF s # <<>> /\ s[Len(s)] = "/" THEN SubSeq(s, 1, Len(s) - 1) ELSE s

\* str.rstrip('/'): every trailing "/" removed
RECURSIVE rstrip_slash(_)
rstrip_slash(s) ==
    IF s # <<>> /\ s[Len(s)] = "/" THEN rstrip_slash(SubSeq(s, 1, Len(s) - 1)) ELSE s

HTTP == <<"h", "t", "t", "p", ":", "/", "/">>
HTTPS == <<"h", "t", "t", "p", "s", ":", "/", "/">>

\* str(n) of a natural number, digit by digit
Digit(d) == CASE d = 0 -> "0" [] d = 1 -> "1" [] d = 2 -> "2" [] d = 3 -> "3"
              [] d = 4 -> "4" [] d = 5 -> "5" [] d = 6 -> "6" [] d = 7 -> "7"
              [] d = 8 -> "8" [] d = 9 -> "9"

RECURSIVE Str(_)
Str(n) == IF n < 10 THEN <<Digit(n)>> ELSE Str(n \div 10) \o <<Digit(n % 10)>>

-----------------------------------------------------------------------------
(* exceptions.py *)

\* the message argument left at its default None
NoMessage == <<>>

JiraAuthError(message) == [kind |-> "JiraAuthError", message |-> message]

JiraConnectionError(message) == [kind |-> "JiraConnectionError", message |-> message]

JiraAPIError(status_code, response_text, message) ==
    [kind |-> "JiraAPIError",
     status_code |-> status_code,
     response_text |-> response_text,
     message |-> IF message = NoMessage
                 THEN <<"Jira API error: ">> \o Str(status_code) \o <<" - ">> \o response_text
                 ELSE message]

JiraValidationError(field, message) ==
    [kind |-> "JiraValidationError",
     field |-> field,
     message |-> <<"Validation error for ", field, ": ", message>>]

\* a function that ends by raising e / by returning v
Raise(e) == [ok |-> FALSE, error |-> e]
Return(v) == [ok |-> TRUE, value |-> v]

-----------------------------------------------------------------------------
(* utils.py: the validators *)

validate_url(url) ==
    IF url = <<>>
    THEN Raise(JiraValidationError("url", "URL cannot be empty"))
    ELSE LET stripped == strip(url)
             schemed == IF ~(startswith(stripped, HTTP) \/ startswith(stripped, HTTPS))
                        THEN HTTPS \o stripped
                        ELSE stripped
         IN  Return(rstrip_slash(schemed))

\* a faulty variant of validate_token: a token of exactly the minimum length is refused
validate_token_le(token) ==
    LET stripped == strip(token)
    IN  IF stripped = <<>>
        THEN Raise(JiraValidationError("token", "Token cannot be empty"))
        ELSE IF Len(stripped) <= 10
        THEN Raise(JiraValidationError("token", "Token appears to be too short"))
        ELSE Return(stripped)

MinTokenLen == 10

validate_token(token) ==
    LET stripped == strip(token)
    IN  IF stripped = <<>>
        THEN Raise(JiraValidationError("token", "Token cannot be empty"))
        ELSE IF Len(stripped) < MinTokenLen
        THEN Raise(JiraValidationError("token", "Token appears to be too short"))
        ELSE Return(stripped)

-----------------------------------------------------------------------------
(* Raw inputs of the validators *)

UrlChars == {"a", "/", " "}

RECURSIVE SeqsUpTo(_, _)
SeqsUpTo(S, n) ==
    IF n = 0 THEN {<<>>}
    ELSE LET shorter == SeqsUpTo(S, n - 1)
         IN  shorter \cup {Append(s, c) : s \in shorter, c \in S}

\* optional leading blank, optional scheme, then a body over UrlChars
UrlInputs ==
    {lead \o scheme \o body :
        lead \in {<<>>, <<" ">>},
        scheme \in {<<>>, HTTP, HTTPS},
        body \in SeqsUpTo(UrlChars, MaxUrlBody)}

Repeat(c, n) == [i \in 1..n |-> c]

\* optional blanks around a run of 0..MaxTokenLen token characters
TokenInputs ==
    {lead \o Repeat("t", n) \o trail :
        lead \in {<<>>, <<" ">>},
        n \in 0..MaxTokenLen,
        trail \in {<<>>, <<" ">>}}

NotYet == [ok |-> FALSE, error |-> [kind |-> "None"]]

-----------------------------------------------------------------------------
(* The transport: what requests.get / requests.post does on one attempt *)

\* a response with its status code, its body and what response.json() does with it
Response(status_code, text, json) ==
    [t |-> "response", status_code |-> status_code, text |-> text, json |-> json]

\* an exception of class cls raised by the transport
TransportError(cls) == [t |-> "exception", kind |-> cls, message |-> <<cls, " raised by requests">>]

Responses ==
    {Response(200, <<"{issues}">>, "ok"),
     Response(200, <<"<html>">>, "JSONDecodeError"),
     Response(200, <<"<html>">>, "ValueError"),
     Response(204, <<>>, "JSONDecodeError"),
     Response(400, <<"bad request">>, "ok"),
     Response(401, <<"unauthorized">>, "ok"),
     Response(403, <<"forbidden">>, "ok"),
     Response(404, <<"not found">>, "ok"),
     Response(503, <<"unavailable">>, "ok")}

TransportErrors ==
    {TransportError(c) :
        c \in {"Timeout", "ConnectionError", "SSLError", "RequestException", "KeyboardInterrupt"}}

Results == Responses \cup TransportErrors

\* a faulty variant of Bases: KeyboardInterrupt derives from Exception
Bases_interrupt_is_exception(cls) ==
    CASE cls = "Timeout" -> {"Timeout", "RequestException", "Exception"}
      [] cls = "ConnectionError" -> {"ConnectionError", "RequestException", "Exception"}
      [] cls = "SSLError" -> {"SSLError", "ConnectionError", "RequestException", "Exception"}
      [] cls = "HTTPError" -> {"HTTPError", "RequestException", "Exception"}
      [] cls = "JSONDecodeError" -> {"JSONDecodeError", "RequestException", "ValueError", "Exception"}
      [] cls = "RequestException" -> {"RequestException", "Exception"}
      [] OTHER -> {cls, "Exception"}

\* the classes of requests.exceptions (and the builtins) an exception class derives from
Bases(cls) ==
    CASE cls = "Timeout" -> {"Timeout", "RequestException", "Exception"}
      [] cls = "ConnectionError" -> {"ConnectionError", "RequestException", "Exception"}
      [] cls = "SSLError" -> {"SSLError", "ConnectionError", "RequestException", "Exception"}
      [] cls = "HTTPError" -> {"HTTPError", "RequestException", "Exception"}
      [] cls = "JSONDecodeError" -> {"JSONDecodeError", "RequestException", "ValueError", "Exception"}
      [] cls = "RequestException" -> {"RequestException", "Exception"}
      [] cls = "KeyboardInterrupt" -> {"KeyboardInterrupt"}
      [] OTHER -> {cls, "Exception"}

isinstance(e, cls) == cls \in Bases(e.kind)

\* str(e)
str(e) == e.message

-----------------------------------------------------------------------------
(* jira_api.py *)

None == [kind |-> "None"]
NoneValue == [none |-> TRUE]
Parsed(text) == [none |-> FALSE, json |-> text]

Endpoint(a) == IF a.fn = "search_issues" THEN "search" ELSE a.endpoint

\* a faulty variant of validate_inputs: the token is passed on without validation
validate_inputs_no_token(url, token) ==
    LET u == validate_url(url)
    IN  IF ~u.ok THEN u ELSE Return([jira_url |-> u.value, jira_token |-> token])

\* lines 20-25 / 96-101: both validators, the first failure re-raised unchanged
validate_inputs(url, token) ==
    LET u == validate_url(url)
        t == validate_token(token)
    IN  IF ~u.ok THEN u
        ELSE IF ~t.ok THEN t
        ELSE Return([jira_url |-> u.value, jira_token |-> t.value])

\* a faulty variant of Request: a retry gives up TLS verification
Request_retry_unverified(a, url, token) ==
    IF a.fn = "search_issues"
    THEN [call |-> "requests.get",
          url |-> url \o <<"/rest/api/2/", "search">>,
          headers |-> [Authorization |-> <<"Bearer ">> \o token,
                       Accept |-> "application/json"],
          params |-> [jql |-> a.jql_query,
                      fields |-> "summary,status,assignee,reporter,priority,created,updated"],
          verify |-> (attempt = 0 /\ a.verify_ssl),
          timeout |-> 30]
    ELSE IF a.method = "GET"
    THEN [call |-> "requests.get",
          url |-> url \o <<"/rest/api/2/", a.endpoint>>,
          headers |-> [Authorization |-> <<"Bearer ">> \o token,
                       Accept |-> "application/json",
                       ContentType |-> "application/json"],
          verify |-> (attempt = 0 /\ a.verify_ssl),
          timeout |-> 30]
    ELSE [call |-> "requests.post",
          url |-> url \o <<"/rest/api/2/", a.endpoint>>,
          headers |-> [Authorization |-> <<"Bearer ">> \o token,
                       Accept |-> "application/json",
                       ContentType |-> "application/json"],
          data |-> <<"json.dumps", a.payload>>,
          verify |-> (attempt = 0 /\ a.verify_ssl),
          timeout |-> 30]

\* lines 27-32 and 39-42 / 103-112 and 118-119: the request of one attempt
Request(a, url, token) ==
    IF a.fn = "search_issues"
    THEN [call |-> "requests.get",
          url |-> url \o <<"/rest/api/2/", "search">>,
          headers |-> [Authorization |-> <<"Bearer ">> \o token,
                       Accept |-> "application/json"],
          params |-> [jql |-> a.jql_query,
                      fields |-> "summary,status,assignee,reporter,priority,created,updated"],
          verify |-> a.verify_ssl,
          timeout |-> 30]
    ELSE IF a.method = "GET"
    THEN [call |-> "requests.get",
          url |-> url \o <<"/rest/api/2/", a.endpoint>>,
          headers |-> [Authorization |-> <<"Bearer ">> \o token,
                       Accept |-> "application/json",
                       ContentType |-> "application/json"],
          verify |-> a.verify_ssl,
          timeout |-> 30]
    ELSE [call |-> "requests.post",
          url |-> url \o <<"/rest/api/2/", a.endpoint>>,
          headers |-> [Authorization |-> <<"Bearer ">> \o token,
                       Accept |-> "application/json",
                       ContentType |-> "application/json"],
          data |-> <<"json.dumps", a.payload>>,
          verify |-> a.verify_ssl,
          timeout |-> 30]

\* a faulty variant of status_checks: a 404 gets the generic message of any status >= 400
status_checks_generic_404(a, response) ==
    IF response.status_code = 401
    THEN JiraAuthError(<<"Invalid credentials. Please check your Jira token.">>)
    ELSE IF response.status_code = 403
    THEN JiraAuthError(<<"Access forbidden. Please check your permissions.">>)
    ELSE IF response.status_code >= 400
    THEN JiraAPIError(response.status_code, response.text, NoMessage)
    ELSE None

\* lines 47-55 / 122-130: the status checks; the error raised, or None
status_checks(a, response) ==
    IF response.status_code = 401
    THEN JiraAuthError(<<"Invalid credentials. Please check your Jira token.">>)
    ELSE IF response.status_code = 403
    THEN JiraAuthError(<<"Access forbidden. Please check your permissions.">>)
    ELSE IF response.status_code = 404
    THEN JiraAPIError(response.status_code, response.text,
                      IF a.fn = "search_issues"
                      THEN <<"Search endpoint not found">>
                      ELSE <<"Resource not found: ", a.endpoint>>)
    ELSE IF response.status_code >= 400
    THEN JiraAPIError(response.status_code, response.text, NoMessage)
    ELSE None

\* response.raise_for_status(): HTTPError for a 4xx or 5xx status, else None
raise_for_status(response) ==
    IF response.status_code >= 400 /\ response.status_code < 600
    THEN [kind |-> "HTTPError", response |-> response,
          message |-> Str(response.status_code) \o <<" Error">>]
    ELSE None

\* response.json(): the parsed body, or the decoding error of the installed requests
json(response) ==
    IF response.json = "ok"
    THEN Return(Parsed(response.text))
    ELSE Raise([kind |-> response.json, message |-> <<"Expecting value">>])

\* a faulty variant of success_path: the body of a 204 is parsed like any other
success_path_always_json(a, response) ==
    IF response.json = "ok"
    THEN Return([none |-> FALSE, json |-> response.text])
    ELSE Raise([kind |-> response.json, message |-> <<"Expecting value">>])

\* lines 59-61 / 133: what the try body does with a response that passed the checks
success_path(a, response) ==
    IF a.fn = "make_api_request" /\ response.status_code = 204
    THEN Return(NoneValue)
    ELSE json(response)

\* lines 37-61 / 117-133: the try body on transport result r; a value returned or
\* an exception raised inside the try
try_body(a, r) ==
    IF r.t = "exception"
    THEN Raise([kind |-> r.kind, message |-> r.message])
    ELSE IF status_checks(a, r) # None THEN Raise(status_checks(a, r))
    ELSE IF raise_for_status(r) # None THEN Raise(raise_for_status(r))
    ELSE success_path(a, r)

\* lines 43-44: the try body of an attempt with a method that is neither GET nor POST
unsupported_method(a) ==
    Raise([kind |-> "ValueError", message |-> <<"Unsupported HTTP method: ", a.method>>])

\* a faulty variant of except_clauses: the final "except Exception" clause is missing
except_clauses_no_catch_all(a, e) ==
    IF isinstance(e, "Timeout")
    THEN JiraConnectionError(<<"Request timed out. Please check your connection.">>)
    ELSE IF isinstance(e, "ConnectionError")
    THEN JiraConnectionError(
             <<"Failed to connect to Jira. Please check the URL and your network connection.">>)
    ELSE IF isinstance(e, "HTTPError")
    THEN JiraAPIError(e.response.status_code, e.response.text, NoMessage)
    ELSE IF isinstance(e, "RequestException")
    THEN JiraConnectionError(<<"Network error: ">> \o str(e))
    ELSE None

\* a faulty variant of except_clauses: an authentication failure is not retried but
\* leaves the call at once
except_clauses_auth_fatal(a, e) ==
    IF e.kind = "JiraAuthError" THEN None ELSE
        IF isinstance(e, "Timeout")
        THEN IF a.fn = "search_issues"
             THEN JiraConnectionError(<<"Search request timed out. Please try again.">>)
             ELSE JiraConnectionError(<<"Request timed out. Please check your connection.">>)
        ELSE IF isinstance(e, "ConnectionError")
        THEN JiraConnectionError(
                 <<"Failed to connect to Jira. Please check the URL and your network connection.">>)
        ELSE IF isinstance(e, "SSLError")
        THEN IF a.verify_ssl
             THEN JiraConnectionError(
                      <<"SSL certificate verification failed. Use --no-verify-ssl to bypass.">>)
             ELSE JiraConnectionError(<<"SSL error: ">> \o str(e))
        ELSE IF isinstance(e, "HTTPError")
        THEN JiraAPIError(e.response.status_code, e.response.text, NoMessage)
        ELSE IF isinstance(e, "RequestException")
        THEN JiraConnectionError(<<"Network error: ">> \o str(e))
        ELSE IF isinstance(e, "Exception")
        THEN JiraAPIError(500, str(e), <<"Unexpected error: ">> \o str(e))
        ELSE None

\* lines 63-78 / 135-149: the except clauses in order; the new last_exception, or
\* None when no clause catches e
except_clauses(a, e) ==
    IF isinstance(e, "Timeout")
    THEN IF a.fn = "search_issues"
         THEN JiraConnectionError(<<"Search request timed out. Please try again.">>)
         ELSE JiraConnectionError(<<"Request timed out. Please check your connection.">>)
    ELSE IF isinstance(e, "ConnectionError")
    THEN JiraConnectionError(
             <<"Failed to connect to Jira. Please check the URL and your network connection.">>)
    ELSE IF isinstance(e, "SSLError")
    THEN IF a.verify_ssl
         THEN JiraConnectionError(
                  <<"SSL certificate verification failed. Use --no-verify-ssl to bypass.">>)
         ELSE JiraConnectionError(<<"SSL error: ">> \o str(e))
    ELSE IF isinstance(e, "HTTPError")
    THEN JiraAPIError(e.response.status_code, e.response.text, NoMessage)
    ELSE IF isinstance(e, "RequestException")
    THEN JiraConnectionError(<<"Network error: ">> \o str(e))
    ELSE IF isinstance(e, "Exception")
    THEN JiraAPIError(500, str(e), <<"Unexpected error: ">> \o str(e))
    ELSE None

\* a faulty variant of sleep_delay: the search delay is used for every call
sleep_delay_fixed(a, delay) == 1

\* a faulty variant of sleep_delay: search_issues backs off like make_api_request
sleep_delay_backoff(a, delay) == IF a.fn = "make_api_request" THEN delay ELSE 2 ^ attempt

\* lines 83 / 154: the argument of time.sleep
sleep_delay(a, delay) == IF a.fn = "make_api_request" THEN delay ELSE 1

\* a faulty variant of next_delay: the delay is never doubled
next_delay_same(a, delay) == delay

\* line 84: the exponential backoff of make_api_request; search_issues has none
next_delay(a, delay) == IF a.fn = "make_api_request" THEN delay * 2 ELSE delay

\* line 88 / 158: raise last_exception, a TypeError when it is still None
raise_last(e) ==
    IF e = None
    THEN [kind |-> "TypeError", message |-> <<"exceptions must derive from BaseException">>]
    ELSE e

\* lines 36-88 / 116-158 as a function of the transport's answers: the loop of call a
\* fed the results T from attempt i + 1 on, with last_exception = last.  The number of
\* requests sent and how the call ends: "return", the class of the error raised, or
\* "running" when the call wants a further answer than T holds.
RECURSIVE call_result(_, _, _, _)
call_result(a, T, i, last) ==
    IF i >= a.max_retries
    THEN [attempts |-> i, ends |-> raise_last(last).kind]
    ELSE IF i >= Len(T)
    THEN [attempts |-> i, ends |-> "running"]
    ELSE IF try_body(a, T[i + 1]).ok
    THEN [attempts |-> i + 1, ends |-> "return"]
    ELSE IF except_clauses(a, try_body(a, T[i + 1]).error) = None
    THEN [attempts |-> i + 1, ends |-> try_body(a, T[i + 1]).error.kind]
    ELSE call_result(a, T, i + 1, except_clauses(a, try_body(a, T[i + 1]).error))

-----------------------------------------------------------------------------
(* The calls a caller makes *)

Char(c, n) == [i \in 1..n |-> c]

\* an empty url, and a host with a trailing slash
CallUrls == {<<>>, <<"j", "/">>}

\* a token one character too short, and a valid one in blanks
CallTokens == {Char("t", MinTokenLen - 1), <<" ">> \o Char("t", MinTokenLen)}

Delays == {1, 3}

CallArgs ==
    [fn : {"make_api_request"},
     jira_url : CallUrls,
     jira_token : CallTokens,
     endpoint : {"issue"},
     method : {"GET", "POST", "PUT"},
     payload : {"fields"},
     verify_ssl : BOOLEAN,
     max_retries : -1..MaxRetries,
     retry_delay : Delays]
    \cup
    [fn : {"search_issues"},
     jira_url : CallUrls,
     jira_token : CallTokens,
     jql_query : {"project = ABC"},
     verify_ssl : BOOLEAN,
     max_retries : -1..MaxRetries]

NoOutcome == [type |-> "none"]
Returned(v) == [type |-> "return", value |-> v]
Raised(e) == [type |-> "raise", error |-> e]

NoExit == [exited |-> FALSE]

NoInput == [at |-> "none", value |-> <<>>]

CliOff ==
    /\ script = "none"
    /\ cpc = "off"
    /\ project_key = <<>>
    /\ jql_clauses = <<>>
    /\ fields_left = [required |-> 0, optional |-> 0]
    /\ api_calls = <<>>
    /\ interrupted = FALSE
    /\ typed = NoInput
    /\ exit = NoExit

ValidatorsOff ==
    /\ vpc = "off"
    /\ raw_url = <<>>
    /\ raw_token = <<>>
    /\ once = NotYet
    /\ twice = NotYet

\* the state at the entry of a call
Init ==
    /\ pc = "entry"
    /\ args \in CallArgs
    /\ jira_url = args.jira_url
    /\ jira_token = args.jira_token
    /\ attempt = 0
    /\ retry_delay = IF args.fn = "make_api_request" THEN args.retry_delay ELSE 0
    /\ last_exception = None
    /\ raised = None
    /\ sent = <<>>
    /\ trace = <<>>
    /\ sleeps = <<>>
    /\ outcome = NoOutcome
    /\ ValidatorsOff
    /\ CliOff

\* lines 19-34 / 95-114: validation, then the locals of the loop
Entry ==
    /\ pc = "entry"
    /\ LET v == validate_inputs(args.jira_url, args.jira_token)
       IN  IF v.ok
           THEN /\ jira_url' = v.value.jira_url
                /\ jira_token' = v.value.jira_token
                /\ pc' = "loop"
                /\ outcome' = outcome
           ELSE /\ outcome' = Raised(v.error)
                /\ pc' = "done"
                /\ UNCHANGED <<jira_url, jira_token>>
    /\ UNCHANGED <<args, attempt, retry_delay, last_exception, raised, sent, trace, sleeps>>
    /\ UNCHANGED <<valVars, cliVars>>

\* a faulty variant of AfterTry: the next attempt follows a failure without the sleep
AfterTry_no_sleep(res) ==
    IF res.ok
    THEN /\ outcome' = Returned(res.value)
         /\ pc' = "done"
         /\ UNCHANGED <<attempt, last_exception, raised>>
    ELSE IF except_clauses(args, res.error) = None
    THEN /\ outcome' = Raised(res.error)
         /\ pc' = "done"
         /\ UNCHANGED <<attempt, last_exception, raised>>
    ELSE /\ last_exception' = except_clauses(args, res.error)
         /\ raised' = res.error
         /\ outcome' = outcome
         /\ pc' = "loop"
         /\ attempt' = attempt + 1

\* a faulty variant of AfterTry: a POST that failed is never sent again
AfterTry_post_once(res) ==
    IF res.ok
    THEN /\ outcome' = Returned(res.value)
         /\ pc' = "done"
         /\ UNCHANGED <<attempt, last_exception, raised>>
    ELSE IF except_clauses(args, res.error) = None
    THEN /\ outcome' = Raised(res.error)
         /\ pc' = "done"
         /\ UNCHANGED <<attempt, last_exception, raised>>
    ELSE /\ last_exception' = except_clauses(args, res.error)
         /\ raised' = res.error
         /\ outcome' = outcome
         /\ IF args.fn = "make_api_request" /\ args.method = "POST"
            THEN pc' = "loop" /\ attempt' = args.max_retries
            ELSE IF attempt < args.max_retries - 1
            THEN pc' = "sleep" /\ attempt' = attempt
            ELSE pc' = "loop" /\ attempt' = attempt + 1

\* a faulty variant of AfterTry: a failure is recorded only while none is recorded yet
AfterTry_keeps_first(res) ==
    IF res.ok
    THEN /\ outcome' = Returned(res.value)
         /\ pc' = "done"
         /\ UNCHANGED <<attempt, last_exception, raised>>
    ELSE IF except_clauses(args, res.error) = None
    THEN /\ outcome' = Raised(res.error)
         /\ pc' = "done"
         /\ UNCHANGED <<attempt, last_exception, raised>>
    ELSE /\ last_exception' = IF last_exception = None
                              THEN except_clauses(args, res.error)
                              ELSE last_exception
         /\ raised' = res.error
         /\ outcome' = outcome
         /\ IF attempt < args.max_retries - 1
            THEN pc' = "sleep" /\ attempt' = attempt
            ELSE pc' = "loop" /\ attempt' = attempt + 1

\* lines 37-84 / 117-154 after the request: the try body gave res
AfterTry(res) ==
    IF res.ok
    THEN /\ outcome' = Returned(res.value)
         /\ pc' = "done"
         /\ UNCHANGED <<attempt, last_exception, raised>>
    ELSE IF except_clauses(args, res.error) = None
    THEN /\ outcome' = Raised(res.error)
         /\ pc' = "done"
         /\ UNCHANGED <<attempt, last_exception, raised>>
    ELSE /\ last_exception' = except_clauses(args, res.error)
         /\ raised' = res.error
         /\ outcome' = outcome
         /\ IF attempt < args.max_retries - 1
            THEN pc' = "sleep" /\ attempt' = attempt
            ELSE pc' = "loop" /\ attempt' = attempt + 1

\* a faulty variant of Supported: any other method is sent like a POST
Supported_any(a) == TRUE

Supported(a) == IF a.fn = "search_issues" THEN TRUE ELSE a.method \in {"GET", "POST"}

\* one iteration of the loop that sends a request and gets r from the transport
Attempt(r) ==
    /\ pc = "loop"
    /\ attempt < args.max_retries
    /\ Supported(args)
    /\ sent' = Append(sent, Request(args, jira_url, jira_token))
    /\ trace' = Append(trace, r)
    /\ AfterTry(try_body(args, r))
    /\ UNCHANGED <<args, jira_url, jira_token, retry_delay, sleeps>>
    /\ UNCHANGED <<valVars, cliVars>>

\* one iteration of the loop with a method that is neither GET nor POST
AttemptUnsupported ==
    /\ pc = "loop"
    /\ attempt < args.max_retries
    /\ ~Supported(args)
    /\ AfterTry(unsupported_method(args))
    /\ UNCHANGED <<args, jira_url, jira_token, retry_delay, sleeps, sent, trace>>
    /\ UNCHANGED <<valVars, cliVars>>

\* lines 83-84 / 154: the sleep before the next attempt
Sleep ==
    /\ pc = "sleep"
    /\ sleeps' = Append(sleeps, sleep_delay(args, retry_delay))
    /\ retry_delay' = next_delay(args, retry_delay)
    /\ attempt' = attempt + 1
    /\ pc' = "loop"
    /\ UNCHANGED <<args, jira_url, jira_token, last_exception, raised, sent, trace, outcome>>
    /\ UNCHANGED <<valVars, cliVars>>

\* a KeyboardInterrupt raised inside time.sleep: outside the try, it leaves the call
SleepInterrupted ==
    /\ pc = "sleep"
    /\ sleeps' = Append(sleeps, sleep_delay(args, retry_delay))
    /\ outcome' = Raised([kind |-> "KeyboardInterrupt", message |-> <<>>])
    /\ pc' = "done"
    /\ UNCHANGED <<args, jira_url, jira_token, attempt, retry_delay, last_exception,
                   raised, sent, trace>>
    /\ UNCHANGED <<valVars, cliVars>>

\* a faulty variant of Exhausted: a loop that recorded no error returns None
Exhausted_returns_none ==
    /\ pc = "loop"
    /\ attempt >= args.max_retries
    /\ outcome' = IF last_exception = None
                  THEN Returned(NoneValue)
                  ELSE Raised(raise_last(last_exception))
    /\ pc' = "done"
    /\ UNCHANGED <<args, jira_url, jira_token, attempt, retry_delay, last_exception,
                   raised, sent, trace, sleeps>>
    /\ UNCHANGED <<valVars, cliVars>>

\* lines 86-88 / 156-158: the loop is over without a return
Exhausted ==
    /\ pc = "loop"
    /\ attempt >= args.max_retries
    /\ outcome' = Raised(raise_last(last_exception))
    /\ pc' = "done"
    /\ UNCHANGED <<args, jira_url, jira_token, attempt, retry_delay, last_exception,
                   raised, sent, trace, sleeps>>
    /\ UNCHANGED <<valVars, cliVars>>

Next ==
    \/ Entry
    \/ \E r \in Results : Attempt(r)
    \/ AttemptUnsupported
    \/ Sleep
    \/ SleepInterrupted
    \/ Exhausted

Spec == Init /\ [][Next]_vars

\* a call is synchronous and blocking: each request ends within its 30 s timeout and
\* each sleep is finite, so the call takes its next step whenever it has one
SpecFair == Spec /\ WF_vars(Next)

-----------------------------------------------------------------------------
(* The validators on raw input: setup_environment validates what the user or *)
(* the environment supplied, and every request validates the result again.   *)

CallOff ==
    /\ pc = "off"
    /\ args = [fn |-> "none"]
    /\ jira_url = <<>>
    /\ jira_token = <<>>
    /\ attempt = 0
    /\ retry_delay = 0
    /\ last_exception = None
    /\ raised = None
    /\ sent = <<>>
    /\ trace = <<>>
    /\ sleeps = <<>>
    /\ outcome = NoOutcome

InitValidate ==
    /\ vpc = "input"
    /\ \/ raw_url \in UrlInputs /\ raw_token = Char("t", MinTokenLen)
       \/ raw_url = <<"j">> /\ raw_token \in TokenInputs
    /\ once = NotYet
    /\ twice = NotYet
    /\ CallOff
    /\ CliOff

\* auth.py 73-77: the final validation of setup_environment
ValidateOnce ==
    /\ vpc = "input"
    /\ once' = validate_inputs(raw_url, raw_token)
    /\ vpc' = "once"
    /\ UNCHANGED <<raw_url, raw_token, twice>>
    /\ UNCHANGED <<callVars, cliVars>>

\* jira_api.py 20-25: a request validates the session's credentials again
ValidateTwice ==
    /\ vpc = "once"
    /\ once.ok
    /\ twice' = validate_inputs(once.value.jira_url, once.value.jira_token)
    /\ vpc' = "twice"
    /\ UNCHANGED <<raw_url, raw_token, once>>
    /\ UNCHANGED <<callVars, cliVars>>

NextValidate == ValidateOnce \/ ValidateTwice

SpecValidate == InitValidate /\ [][NextValidate]_vars

-----------------------------------------------------------------------------
(* Vocabulary of the properties *)

IsResponse(r) == r.t = "response"
HasStatus(r, c) == r.t = "response" /\ r.status_code = c
Is2xx(r) == r.t = "response" /\ r.status_code >= 200 /\ r.status_code < 300
IsSuccessPayload(r) == r.t = "response" /\ r.status_code = 200 /\ r.json = "ok"
\* a transport failure the except clauses turn into a Connection error
IsConnectionFailure(r) ==
    r.t = "exception" /\ r.kind \in {"Timeout", "ConnectionError", "SSLError", "RequestException"}

\* the call is over and was not ended by a user interrupt
RaisedError == pc = "done" /\ outcome.type = "raise" /\ outcome.error.kind # "KeyboardInterrupt"

IsMake == pc # "off" /\ args.fn = "make_api_request"

\* the call ran out of attempts on its last permitted attempt
FinalAttemptFailed ==
    /\ RaisedError
    /\ args.max_retries >= 1
    /\ Len(trace) = args.max_retries

RECURSIVE TrailingSlashes(_)
TrailingSlashes(s) ==
    IF s # <<>> /\ s[Len(s)] = "/" THEN 1 + TrailingSlashes(SubSeq(s, 1, Len(s) - 1)) ELSE 0

endswith(s, p) == Len(s) >= Len(p) /\ SubSeq(s, Len(s) - Len(p) + 1, Len(s)) = p

HasScheme(s) == startswith(s, HTTP) \/ startswith(s, HTTPS)

Validated == vpc \in {"once", "twice"}

-----------------------------------------------------------------------------
(* C1: if the server answers 401 on every attempt, make_api_request makes   *)
(* exactly max_retries attempts and the error raised to the caller is a     *)
(* JiraAuthError.                                                           *)
C1_Unauthorized_RaisesAuth ==
    (/\ IsMake
     /\ RaisedError
     /\ trace # <<>>
     /\ \A i \in 1..Len(trace) : HasStatus(trace[i], 401))
    => (/\ Len(trace) = args.max_retries
        /\ outcome.error.kind = "JiraAuthError")

(* C2: when the final attempt of make_api_request gets a status >= 400      *)
(* other than 401 and 403, the error raised is a JiraAPIError carrying that *)
(* response's status code and body; for 404 its message names the endpoint. *)
C2_ApiError_CarriesStatusAndBody ==
    (/\ IsMake
     /\ FinalAttemptFailed
     /\ IsResponse(trace[Len(trace)])
     /\ trace[Len(trace)].status_code >= 400
     /\ trace[Len(trace)].status_code \notin {401, 403})
    => (/\ outcome.error.kind = "JiraAPIError"
        /\ outcome.error.status_code = trace[Len(trace)].status_code
        /\ outcome.error.response_text = trace[Len(trace)].text
        /\ (trace[Len(trace)].status_code = 404
            => \E k \in 1..Len(outcome.error.message) :
                   outcome.error.message[k] = args.endpoint))

(* C3: once an attempt has received a 2xx response, the call makes no       *)
(* further network attempt and no further sleep: the 2xx response is the    *)
(* last entry of the trace and only the sleeps before it have been taken.   *)
C3_NoRetryAfterSuccess ==
    pc # "off" =>
        \A i \in 1..Len(trace) :
            Is2xx(trace[i]) => (i = Len(trace) /\ Len(sleeps) < i)

(* C4: with max_retries = 3, connection failures on attempts 1 and 2 and a  *)
(* success on attempt 3, make_api_request returns the parsed payload of     *)
(* attempt 3 after exactly two sleeps, retry_delay and then 2*retry_delay.  *)
C4_TwoFailuresThenSuccess ==
    (/\ IsMake
     /\ args.max_retries = 3
     /\ Len(trace) = 3
     /\ IsConnectionFailure(trace[1])
     /\ IsConnectionFailure(trace[2])
     /\ IsSuccessPayload(trace[3]))
    => (/\ pc = "done"
        /\ outcome = Returned(Parsed(trace[3].text))
        /\ Len(sent) = 3
        /\ sleeps = <<args.retry_delay, 2 * args.retry_delay>>)

C4_Witness ==
    /\ IsMake
    /\ args.max_retries = 3
    /\ Len(trace) = 3
    /\ IsConnectionFailure(trace[1])
    /\ IsConnectionFailure(trace[2])
    /\ IsSuccessPayload(trace[3])
    /\ pc = "done"
    /\ args.retry_delay = 3

(* C5: with max_retries = 1 and the single attempt failing, make_api_request *)
(* makes one network attempt, does not sleep, and raises the very error that *)
(* was constructed at the failure site: the Jira error raised by the status  *)
(* checks, or the Connection error made for a transport failure.             *)
C5_SingleAttempt_OriginalError ==
    (/\ IsMake
     /\ args.max_retries = 1
     /\ RaisedError
     /\ Len(trace) = 1)
    => (/\ Len(sent) = 1
        /\ sleeps = <<>>
        /\ (raised.kind \in {"JiraAuthError", "JiraAPIError"} => outcome.error = raised)
        /\ (IsConnectionFailure(trace[1]) => outcome.error.kind = "JiraConnectionError"))

(* C6: when validate_url or validate_token rejects the credentials, the call *)
(* raises the Validation error with no request sent and no sleep; and every  *)
(* request sent carries a url and a token that passed validation.            *)
C6_ValidationBeforeNetwork ==
    (pc \notin {"off", "entry"}) =>
        LET u == validate_url(args.jira_url)
            t == validate_token(args.jira_token)
        IN  /\ (~u.ok \/ ~t.ok)
               => (/\ pc = "done"
                   /\ outcome.type = "raise"
                   /\ outcome.error.kind = "JiraValidationError"
                   /\ sent = <<>> /\ trace = <<>> /\ sleeps = <<>>)
            /\ \A i \in 1..Len(sent) :
                   /\ u.ok /\ t.ok
                   /\ startswith(sent[i].url, u.value)
                   /\ sent[i].headers.Authorization = <<"Bearer ">> \o t.value

C6_Witness ==
    /\ pc = "done"
    /\ validate_url(args.jira_url).ok
    /\ ~validate_token(args.jira_token).ok
    /\ outcome.type = "raise"
    /\ args.max_retries = 3

(* C7: validate_url is idempotent: validating a url that validate_url        *)
(* returned succeeds and returns it unchanged.                               *)
C7_ValidateUrl_Idempotent ==
    vpc = "twice" => (twice.ok /\ twice.value.jira_url = once.value.jira_url)

(* C8: every url validate_url returns begins with http:// or https:// and    *)
(* does not end with "/"; an input without such a prefix comes back with     *)
(* https:// in front.                                                        *)
C8_ValidateUrl_SchemeNoSlash ==
    (Validated /\ once.ok) =>
        LET r == once.value.jira_url
        IN  /\ HasScheme(r)
            /\ TrailingSlashes(r) = 0
            /\ (~HasScheme(strip(raw_url)) => startswith(r, HTTPS))

(* C9 as stated: validate_url removes exactly one trailing "/": a (trimmed)  *)
(* input ending in k >= 1 slashes is returned ending in k-1 slashes, and an  *)
(* input with no trailing slash keeps its end.                               *)
C9_ExactlyOneSlashStripped ==
    (Validated /\ once.ok) =>
        LET t == strip(raw_url)
            k == TrailingSlashes(t)
            r == once.value.jira_url
        IN  IF k >= 1 THEN TrailingSlashes(r) = k - 1 ELSE endswith(r, t)

(* C9 amended: validate_url removes every trailing "/": the url returned     *)
(* ends in no slash, and with the k trailing slashes of the trimmed input    *)
(* put back it ends with the trimmed input (so exactly one slash is removed  *)
(* only when k = 1, and an input with no trailing slash keeps its end).      *)
C9_AllTrailingSlashesStripped ==
    (Validated /\ once.ok) =>
        LET t == strip(raw_url)
            k == TrailingSlashes(t)
            r == once.value.jira_url
        IN  /\ TrailingSlashes(r) = 0
            /\ endswith(r \o Char("/", k), t)

C9_Witness ==
    /\ Validated
    /\ once.ok
    /\ TrailingSlashes(strip(raw_url)) >= 2
    /\ Len(strip(raw_url)) > TrailingSlashes(strip(raw_url))

(* C10: validate_url fails with a Validation error for every input that is   *)
(* empty after trimming whitespace, and returns no url for it.               *)
C10_BlankUrl_Rejected ==
    (Validated /\ strip(raw_url) = <<>>) =>
        (~once.ok /\ once.error.kind = "JiraValidationError" /\ once.error.field = "url")

(* C11: validate_token fails with a Validation error for every token whose   *)
(* trimmed length is below 10 (empty included) and returns exactly the       *)
(* trimmed token for every token whose trimmed length is at least 10.        *)
C11_ValidateToken_MinLength ==
    (Validated /\ validate_url(raw_url).ok) =>
        LET t == strip(raw_token)
        IN  IF Len(t) < 10
            THEN /\ ~once.ok
                 /\ once.error.kind = "JiraValidationError"
                 /\ once.error.field = "token"
            ELSE /\ once.ok
                 /\ once.value.jira_token = t

C11_Witness ==
    /\ Validated
    /\ once.ok
    /\ Len(raw_token) > Len(once.value.jira_token)
    /\ Len(once.value.jira_token) = 10

(* C12: when an attempt of make_api_request receives HTTP 204, the call      *)
(* returns None at once: the body is not parsed, and no attempt and no sleep *)
(* follows.                                                                  *)
C12_NoContent_ReturnsNone ==
    IsMake =>
        \A i \in 1..Len(trace) :
            HasStatus(trace[i], 204)
            => (/\ i = Len(trace)
                /\ pc = "done"
                /\ outcome = Returned(NoneValue)
                /\ Len(sleeps) = i - 1)

C12_Witness ==
    /\ IsMake
    /\ Len(trace) = 2
    /\ HasStatus(trace[2], 204)
    /\ trace[2].json # "ok"
    /\ pc = "done"

TypedKinds == {"JiraAuthError", "JiraConnectionError", "JiraAPIError", "JiraValidationError"}

Interrupted == outcome.type = "raise" /\ outcome.error.kind = "KeyboardInterrupt"

\* the credentials pass validation and the method is one the call sends
SendsRequests ==
    /\ validate_url(args.jira_url).ok
    /\ validate_token(args.jira_token).ok
    /\ Supported(args)

OneTypedOutcome ==
    \/ outcome.type = "return"
    \/ outcome.type = "raise" /\ outcome.error.kind \in TypedKinds

(* C13 as stated: for max_retries >= 1 every call ends after at least 1 and  *)
(* at most max_retries network attempts, having returned a value or raised   *)
(* one typed error (Auth, Connection, APIStatus or Validation).              *)
C13_EndsAfterOneToMaxAttempts ==
    (pc = "done" /\ args.max_retries >= 1 /\ ~Interrupted)
    => (/\ Len(trace) >= 1
        /\ Len(trace) <= args.max_retries
        /\ OneTypedOutcome)

\* what holds of every state of a call with max_retries >= 1
C13_Outcome ==
    (pc # "off" /\ args.max_retries >= 1)
    => (/\ Len(trace) <= args.max_retries
        /\ (pc # "done" <=> outcome = NoOutcome)
        /\ (pc = "done" /\ ~Interrupted)
           => (/\ OneTypedOutcome
               /\ IF SendsRequests THEN Len(trace) >= 1 ELSE Len(trace) = 0))

(* C13 amended: for max_retries >= 1 and without a user interrupt, every     *)
(* call ends after at most max_retries network attempts - at least 1 when    *)
(* the credentials are valid and the method is GET or POST, none otherwise - *)
(* with exactly one outcome, a returned value or one raised typed error; the *)
(* outcome, once there, never changes.                                       *)
C13_Terminates_WithOneOutcome ==
    /\ []C13_Outcome
    /\ [][outcome # NoOutcome => outcome' = outcome]_vars
    /\ (pc = "entry" /\ args.max_retries >= 1) ~> (pc = "done")

C13_Witness ==
    /\ pc = "done"
    /\ args.max_retries = 3
    /\ Len(trace) = 3
    /\ outcome.type = "raise"
    /\ outcome.error.kind = "JiraConnectionError"

RECURSIVE Sum(_)
Sum(s) == IF s = <<>> THEN 0 ELSE Head(s) + Sum(Tail(s))

\* the loop ran out of attempts: the call ended at "raise last_exception"
RetriesExhausted ==
    /\ RaisedError
    /\ args.max_retries >= 1
    /\ outcome.error.kind # "JiraValidationError"

C15_SearchConstantDelay ==
    (pc # "off" /\ args.fn = "search_issues") =>
        /\ \A i \in 1..Len(sleeps) : sleeps[i] = 1
        /\ (pc = "loop" /\ args.max_retries >= 1)
           => Len(sleeps) = (IF attempt < args.max_retries THEN attempt ELSE attempt - 1)
        /\ pc = "sleep" => (Len(sleeps) = attempt /\ attempt < args.max_retries - 1)
        /\ RetriesExhausted => Len(sleeps) = args.max_retries - 1

C15_Witness ==
    /\ args.fn = "search_issues"
    /\ RetriesExhausted
    /\ args.max_retries = 3
    /\ sleeps = <<1, 1>>

\* the search_issues call / the make_api_request GET call with the arguments of this call
AsSearch(a) ==
    [fn |-> "search_issues", jira_url |-> a.jira_url, jira_token |-> a.jira_token,
     jql_query |-> "project = ABC", verify_ssl |-> a.verify_ssl, max_retries |-> a.max_retries]
AsGet(a) ==
    [fn |-> "make_api_request", jira_url |-> a.jira_url, jira_token |-> a.jira_token,
     endpoint |-> "search", method |-> "GET", payload |-> "fields",
     verify_ssl |-> a.verify_ssl, max_retries |-> a.max_retries, retry_delay |-> 1]

\* how this call ended
Ends == IF outcome.type = "return" THEN "return" ELSE outcome.error.kind

\* this call ran on the transport's answers alone: valid credentials, no interrupted sleep
RanOnTrace ==
    /\ pc = "done"
    /\ SendsRequests
    /\ ~(Interrupted /\ (trace = <<>> \/ trace[Len(trace)].t # "exception"
                                      \/ trace[Len(trace)].kind # "KeyboardInterrupt"))

(* C16: search_issues and make_api_request with method GET classify alike:   *)
(* for every max_retries and every sequence of per-attempt results (status   *)
(* codes, 204 included, or transport failures) both make the same number of  *)
(* attempts and end the same way (success, or the same kind of error).       *)
C16_SearchLikeGet ==
    RanOnTrace =>
        /\ (args.fn = "make_api_request" /\ args.method = "GET")
           => call_result(AsSearch(args), trace, 0, None) = [attempts |-> Len(trace), ends |-> Ends]
        /\ args.fn = "search_issues"
           => call_result(AsGet(args), trace, 0, None) = [attempts |-> Len(trace), ends |-> Ends]

\* call_result agrees with the steps of the call it is a function of
CallResultIsTheCall ==
    (RanOnTrace /\ Supported(args))
    => call_result(args, trace, 0, None) = [attempts |-> Len(trace), ends |-> Ends]

Mentions(message, part) == \E k \in 1..Len(message) : message[k] = part

(* C17: when the final attempt of search_issues receives HTTP 404, the error *)
(* raised is a JiraAPIError whose message mentions the search endpoint.      *)
C17_Search404_MentionsEndpoint ==
    (/\ pc # "off"
     /\ args.fn = "search_issues"
     /\ FinalAttemptFailed
     /\ HasStatus(trace[Len(trace)], 404))
    => (/\ outcome.error.kind = "JiraAPIError"
        /\ Mentions(outcome.error.message, "Search endpoint not found"))

C17_Witness ==
    /\ args.fn = "search_issues"
    /\ FinalAttemptFailed
    /\ args.max_retries = 2
    /\ HasStatus(trace[Len(trace)], 404)

(* C18: every attempt of a call sends the same request: url, method,         *)
(* headers, payload and TLS-verification setting do not change between       *)
(* attempts, and every attempt of search_issues is a GET of the "search"     *)
(* endpoint with the caller's jql string verbatim and the fixed field list.  *)
C18_SameRequestEveryAttempt ==
    pc # "off" =>
        /\ \A i, j \in 1..Len(sent) : sent[i] = sent[j]
        /\ \A i \in 1..Len(sent) :
               /\ sent[i].verify = args.verify_ssl
               /\ endswith(sent[i].url, <<"/rest/api/2/", Endpoint(args)>>)
               /\ args.fn = "search_issues"
                  => (/\ sent[i].call = "requests.get"
                      /\ endswith(sent[i].url, <<"search">>)
                      /\ sent[i].params.jql = args.jql_query
                      /\ sent[i].params.fields
                         = "summary,status,assignee,reporter,priority,created,updated")
               /\ args.fn = "make_api_request"
                  => (/\ sent[i].call = (IF args.method = "GET" THEN "requests.get"
                                                                 ELSE "requests.post")
                      /\ args.method = "POST" => sent[i].data = <<"json.dumps", args.payload>>)

C18_Witness ==
    /\ pc = "done"
    /\ Len(sent) = 3
    /\ args.verify_ssl
    /\ args.fn = "search_issues"

(* C19: when a TLS/certificate failure occurs on the final attempt with TLS  *)
(* verification enabled, the call raises a Connection error whose message    *)
(* mentions the --no-verify-ssl override, not the generic connection message.*)
C19_TlsFailure_MentionsOverride ==
    (/\ pc # "off"
     /\ FinalAttemptFailed
     /\ args.verify_ssl
     /\ trace[Len(trace)].t = "exception"
     /\ trace[Len(trace)].kind = "SSLError")
    => (/\ outcome.error.kind = "JiraConnectionError"
        /\ outcome.error.message
           = <<"SSL certificate verification failed. Use --no-verify-ssl to bypass.">>)

(***************************************************************************)
(* One run of a command-line script: main of jira_create.py, jira_list.py  *)
(* and of the older jira-create.py, jira-list.py.  The run blocks in a     *)
(* prompt or in an API call; each step takes what the user types (or a     *)
(* Ctrl-C) or how the API call ends, and moves main to its next blocking   *)
(* point or to the end of the process.                                     *)
(***************************************************************************)
MaxFields == 1

Scripts == {"jira_create.py", "jira_list.py", "jira-create.py", "jira-list.py"}

IsCreate(s) == s \in {"jira_create.py", "jira-create.py"}

\* the process ended with this exit code
Exit(code) == [exited |-> TRUE, code |-> code]

\* str.upper on the letters the prompts are given
upper(s) == [i \in 1..Len(s) |-> CASE s[i] = "a" -> "A"
                                   [] s[i] = "b" -> "B"
                                   [] OTHER -> s[i]]

\* str.lower on the letters the prompts are given
lower(s) == [i \in 1..Len(s) |-> CASE s[i] = "Y" -> "y"
                                   [] s[i] = "N" -> "n"
                                   [] s[i] = "Q" -> "q"
                                   [] OTHER -> s[i]]

\* " AND ".join(clauses)
RECURSIVE join(_)
join(clauses) ==
    IF clauses = <<>> THEN <<>>
    ELSE IF Len(clauses) = 1 THEN clauses[1]
    ELSE clauses[1] \o <<" AND ">> \o join(Tail(clauses))

\* what the user types at a free-text prompt
KeyInputs == {<<>>, <<" ">>, <<"a", "b">>, <<" ", "a">>}

\* the errors an API call of a run ends in: the calls of the scripts pass
\* validated credentials, a supported method and the default max_retries
ApiRaises == {"JiraConnectionError", "JiraAPIError", "KeyboardInterrupt"}

\* the errors setup_environment ends in
SetupRaises == {"JiraConfigError", "JiraAuthError", "KeyboardInterrupt"}

\* the except clauses of main: the exit code the process ends with when an
\* exception of this kind reaches them.  A clause that only prints lets main
\* return, and the process ends with 0.
main_except(s, kind) ==
    IF s \in {"jira_create.py", "jira_list.py"}
    THEN IF kind \in {"JiraAuthError", "JiraConnectionError", "JiraAPIError"} THEN 0
         ELSE IF kind = "KeyboardInterrupt" THEN 0
         ELSE 1
    ELSE IF s = "jira-create.py"
    THEN IF kind = "KeyboardInterrupt" THEN 1 ELSE 0
    ELSE IF kind = "KeyboardInterrupt" THEN 0 ELSE 1

\* an exception leaves the try block of main
CliRaise(kind) ==
    /\ cpc' = "exited"
    /\ exit' = Exit(main_except(script, kind))
    /\ interrupted' = (interrupted \/ kind = "KeyboardInterrupt")

\* main returns, or sys.exit(code) is called outside the except clauses
CliExit(code) ==
    /\ cpc' = "exited"
    /\ exit' = Exit(code)
    /\ UNCHANGED interrupted

CliGoto(step) ==
    /\ cpc' = step
    /\ UNCHANGED <<exit, interrupted>>

\* the prompt the create flow blocks in next
FieldStep(f) ==
    IF f.required > 0 THEN "required"
    ELSE IF f.optional > 0 THEN "optional"
    ELSE "confirm"

ApiCall(method, endpoint) ==
    [fn |-> "make_api_request", method |-> method, endpoint |-> endpoint]

SearchCall(jql) == [fn |-> "search_issues", jql_query |-> jql]

InitCli ==
    /\ script \in Scripts
    /\ cpc = "setup"
    /\ project_key = <<>>
    /\ jql_clauses = <<>>
    /\ fields_left = [required |-> 0, optional |-> 0]
    /\ api_calls = <<>>
    /\ interrupted = FALSE
    /\ typed = NoInput
    /\ exit = NoExit
    /\ CallOff
    /\ ValidatorsOff

\* the value main takes from a prompt
Input(value) == [at |-> cpc, value |-> value]

\* what the user types at the confirmation and at the optional-field prompt
ConfirmInputs == {<<"y">>, <<" ", "Y">>, <<"n">>, <<>>}
OptionalInputs == {<<"skip all">>, <<"y">>, <<"N">>}

\* what the user types at a menu
MenuInputs == {<<"q">>, <<"Q", " ">>, <<"1">>, <<"9">>, <<"x">>}
FilterInputs == {<<"0">>, <<"1">>, <<" ", "2">>, <<"3">>, <<"x">>}

\* setup_environment(args.jira_url)
Setup ==
    /\ cpc = "setup"
    /\ \/ CliGoto("project_key")
       \/ \E kind \in SetupRaises : CliRaise(kind)
    /\ UNCHANGED <<script, project_key, jql_clauses, fields_left, api_calls, typed>>
    /\ UNCHANGED <<callVars, valVars>>

\* create: the project key prompt
CreateProjectKey ==
    /\ cpc = "project_key"
    /\ IsCreate(script)
    /\ \/ \E raw \in KeyInputs :
            /\ project_key' = upper(strip(raw))
            /\ typed' = Input(project_key')
            /\ IF project_key' = <<>> THEN CliExit(0) ELSE CliGoto("issue_types")
       \/ CliRaise("KeyboardInterrupt") /\ UNCHANGED <<project_key, typed>>
    /\ UNCHANGED <<script, jql_clauses, fields_left, api_calls>>
    /\ UNCHANGED <<callVars, valVars>>

\* create: GET issue/createmeta/{project_key}/issuetypes and the checks of its result
CreateIssueTypes ==
    /\ cpc = "issue_types"
    /\ api_calls' = Append(api_calls,
           ApiCall("GET", <<"issue/createmeta/">> \o project_key \o <<"/issuetypes">>))
    /\ \/ \E meta \in {"None", "no values", "subtasks only"} : CliExit(0)
       \/ CliGoto("select_type")
       \/ \E kind \in ApiRaises : CliRaise(kind)
    /\ UNCHANGED <<script, project_key, jql_clauses, fields_left, typed>>
    /\ UNCHANGED <<callVars, valVars>>

\* create: select_from_list(issue_types), asked again on an invalid choice
CreateSelectType ==
    /\ cpc = "select_type"
    /\ \/ \E raw \in MenuInputs :
            /\ typed' = Input(strip(raw))
            /\ IF lower(strip(raw)) = <<"q">> THEN CliExit(0)
               ELSE IF strip(raw) = <<"1">> THEN CliGoto("fields")
               ELSE CliGoto("select_type")
       \/ CliRaise("KeyboardInterrupt") /\ UNCHANGED typed
    /\ UNCHANGED <<script, project_key, jql_clauses, fields_left, api_calls>>
    /\ UNCHANGED <<callVars, valVars>>

\* create: GET issue/createmeta/{project_key}/issuetypes/{id}, the fields split
\* into required and optional ones
CreateFields ==
    /\ cpc = "fields"
    /\ api_calls' = Append(api_calls,
           ApiCall("GET", <<"issue/createmeta/">> \o project_key \o <<"/issuetypes/", "id">>))
    /\ \/ \E meta \in {"None", "no values"} : CliExit(0) /\ UNCHANGED fields_left
       \/ \E r \in 0..MaxFields, o \in 0..MaxFields :
            /\ fields_left' = [required |-> r, optional |-> o]
            /\ CliGoto(FieldStep(fields_left'))
       \/ \E kind \in ApiRaises : CliRaise(kind) /\ UNCHANGED fields_left
    /\ UNCHANGED <<script, project_key, jql_clauses, typed>>
    /\ UNCHANGED <<callVars, valVars>>

\* create: the prompt of one required field, asked again while it yields None
CreateRequired ==
    /\ cpc = "required"
    /\ \/ \E raw \in KeyInputs :
            /\ typed' = Input(strip(raw))
            /\ IF strip(raw) = <<>>
               THEN CliGoto("required") /\ UNCHANGED fields_left
               ELSE /\ fields_left' = [fields_left EXCEPT !.required = @ - 1]
                    /\ CliGoto(FieldStep(fields_left'))
       \/ CliRaise("KeyboardInterrupt") /\ UNCHANGED <<fields_left, typed>>
    /\ UNCHANGED <<script, project_key, jql_clauses, api_calls>>
    /\ UNCHANGED <<callVars, valVars>>

\* create: the prompt of one optional field; an interrupt here ends the loop only
CreateOptional ==
    /\ cpc = "optional"
    /\ \/ \E raw \in OptionalInputs :
            /\ typed' = Input(strip(lower(raw)))
            /\ IF strip(lower(raw)) = <<"skip all">>
               THEN CliGoto("confirm") /\ UNCHANGED fields_left
               ELSE /\ fields_left' = [fields_left EXCEPT !.optional = @ - 1]
                    /\ CliGoto(FieldStep(fields_left'))
       \/ /\ cpc' = "confirm"
          /\ interrupted' = TRUE
          /\ UNCHANGED <<exit, fields_left, typed>>
    /\ UNCHANGED <<script, project_key, jql_clauses, api_calls>>
    /\ UNCHANGED <<callVars, valVars>>

\* a faulty variant of CreateConfirm: the answer 'n' goes on to the POST as well
CreateConfirm_n_posts ==
    /\ cpc = "confirm"
    /\ \/ \E raw \in ConfirmInputs :
            /\ typed' = Input(strip(lower(raw)))
            /\ IF strip(lower(raw)) \in {<<"y">>, <<"n">>} THEN CliGoto("post")
               ELSE CliGoto("confirm")
       \/ CliRaise("KeyboardInterrupt") /\ UNCHANGED typed
    /\ UNCHANGED <<script, project_key, jql_clauses, fields_left, api_calls>>
    /\ UNCHANGED <<callVars, valVars>>

\* create: the confirmation loop
CreateConfirm ==
    /\ cpc = "confirm"
    /\ \/ \E raw \in ConfirmInputs :
            /\ typed' = Input(strip(lower(raw)))
            /\ IF strip(lower(raw)) = <<"y">> THEN CliGoto("post")
               ELSE IF strip(lower(raw)) = <<"n">> THEN CliExit(0)
               ELSE CliGoto("confirm")
       \/ CliRaise("KeyboardInterrupt") /\ UNCHANGED typed
    /\ UNCHANGED <<script, project_key, jql_clauses, fields_left, api_calls>>
    /\ UNCHANGED <<callVars, valVars>>

\* create: POST issue
CreatePost ==
    /\ cpc = "post"
    /\ api_calls' = Append(api_calls, ApiCall("POST", <<"issue">>))
    /\ \/ \E created \in {"None", "issue"} : CliExit(0)
       \/ \E kind \in ApiRaises : CliRaise(kind)
    /\ UNCHANGED <<script, project_key, jql_clauses, fields_left, typed>>
    /\ UNCHANGED <<callVars, valVars>>

\* list: the project key prompt and the project clause
ListProjectKey ==
    /\ cpc = "project_key"
    /\ ~IsCreate(script)
    /\ \/ \E raw \in KeyInputs :
            /\ project_key' = upper(strip(raw))
            /\ typed' = Input(project_key')
            /\ jql_clauses' = IF project_key' # <<>>
                              THEN << <<"project = \"">> \o project_key' \o <<"\"">> >>
                              ELSE <<>>
            /\ CliGoto("user_filter")
       \/ CliRaise("KeyboardInterrupt") /\ UNCHANGED <<project_key, jql_clauses, typed>>
    /\ UNCHANGED <<script, fields_left, api_calls>>
    /\ UNCHANGED <<callVars, valVars>>

\* list: the user filter menu.  On "0" utils.select_from_string_list returns
\* None and `in None` raises TypeError; jira-list.py's own menu calls sys.exit(0)
ListUserFilter ==
    /\ cpc = "user_filter"
    /\ \/ \E raw \in FilterInputs :
            /\ typed' = Input(strip(raw))
            /\ IF strip(raw) = <<"0">>
               THEN /\ IF script = "jira_list.py" THEN CliRaise("TypeError") ELSE CliExit(0)
                    /\ UNCHANGED jql_clauses
               ELSE IF strip(raw) = <<"x">>
               THEN CliGoto("user_filter") /\ UNCHANGED jql_clauses
               ELSE /\ jql_clauses' =
                           IF strip(raw) = <<"1">>
                           THEN Append(jql_clauses, <<"reporter = currentUser()">>)
                           ELSE IF strip(raw) = <<"2">>
                           THEN Append(jql_clauses, <<"assignee = currentUser()">>)
                           ELSE jql_clauses
                    /\ CliGoto("status")
       \/ CliRaise("KeyboardInterrupt") /\ UNCHANGED <<jql_clauses, typed>>
    /\ UNCHANGED <<script, project_key, fields_left, api_calls>>
    /\ UNCHANGED <<callVars, valVars>>

\* a faulty variant of ListStatus: the joined query is not checked before the search
ListStatus_no_check ==
    /\ cpc = "status"
    /\ \/ \E raw \in KeyInputs :
            /\ typed' = Input(strip(raw))
            /\ jql_clauses' = IF strip(raw) # <<>>
                              THEN Append(jql_clauses,
                                          <<"status = \"">> \o strip(raw) \o <<"\"">>)
                              ELSE jql_clauses
            /\ CliGoto("search")
       \/ CliRaise("KeyboardInterrupt") /\ UNCHANGED <<jql_clauses, typed>>
    /\ UNCHANGED <<script, project_key, fields_left, api_calls>>
    /\ UNCHANGED <<callVars, valVars>>

\* list: the status prompt, the status clause and the check of the joined query
ListStatus ==
    /\ cpc = "status"
    /\ \/ \E raw \in KeyInputs :
            /\ typed' = Input(strip(raw))
            /\ jql_clauses' = IF strip(raw) # <<>>
                              THEN Append(jql_clauses,
                                          <<"status = \"">> \o strip(raw) \o <<"\"">>)
                              ELSE jql_clauses
            /\ IF join(jql_clauses') = <<>> THEN CliExit(0) ELSE CliGoto("search")
       \/ CliRaise("KeyboardInterrupt") /\ UNCHANGED <<jql_clauses, typed>>
    /\ UNCHANGED <<script, project_key, fields_left, api_calls>>
    /\ UNCHANGED <<callVars, valVars>>

\* list: search_issues(jira_url, jira_token, final_jql) and the display of its result
ListSearch ==
    /\ cpc = "search"
    /\ api_calls' = Append(api_calls, SearchCall(join(jql_clauses)))
    /\ \/ \E results \in {"None", "issues"} : CliExit(0)
       \/ \E kind \in ApiRaises : CliRaise(kind)
    /\ UNCHANGED <<script, project_key, jql_clauses, fields_left, typed>>
    /\ UNCHANGED <<callVars, valVars>>

NextCli ==
    \/ Setup
    \/ CreateProjectKey
    \/ CreateIssueTypes
    \/ CreateSelectType
    \/ CreateFields
    \/ CreateRequired
    \/ CreateOptional
    \/ CreateConfirm
    \/ CreatePost
    \/ ListProjectKey
    \/ ListUserFilter
    \/ ListStatus
    \/ ListSearch

SpecCli == InitCli /\ [][NextCli]_vars

\* ---- vocabulary of the claims about a run ----

Ended == exit.exited

(* C20: when the user interrupts the CLI (keyboard interrupt) during an      *)
(* issue-creation or search run, the process exits with a non-zero exit code.*)
C20_Interrupt_ExitsNonZero ==
    (Ended /\ interrupted) => exit.code # 0

\* the error the except clauses record for attempt i of the call
Recorded(i) == except_clauses(args, try_body(args, trace[i]).error)

(* C21: when a call exhausts its attempts, the error raised is the one       *)
(* recorded for the final attempt; an error recorded for an earlier attempt  *)
(* that failed for a different reason is never the one raised, and after     *)
(* every failed attempt the recorded error is that attempt's, not the one of *)
(* a previous attempt.                                                       *)
C21_RaisesErrorOfFinalAttempt ==
    /\ (pc \in {"sleep", "loop"} /\ trace # <<>>)
       => last_exception = Recorded(Len(trace))
    /\ FinalAttemptFailed
       => (/\ outcome.error = Recorded(Len(trace))
           /\ \A i \in 1..(Len(trace) - 1) :
                  Recorded(i) # Recorded(Len(trace)) => outcome.error # Recorded(i))

C21_Witness ==
    /\ FinalAttemptFailed
    /\ Len(trace) = 3
    /\ HasStatus(trace[1], 401)
    /\ HasStatus(trace[2], 503)
    /\ trace[3].t = "exception"
    /\ trace[3].kind = "Timeout"
    /\ outcome.error.kind = "JiraConnectionError"

\* a per-attempt failure of one of the kinds the retry policy is stated for: a
\* status of 400 or more, a timeout, a connection failure or a TLS failure
ListedFailure(r) ==
    \/ r.t = "response" /\ r.status_code >= 400
    \/ r.t = "exception" /\ r.kind \in {"Timeout", "ConnectionError", "SSLError"}

(* C22: retrying is uniform over failure kinds.  While every attempt of a    *)
(* make_api_request call has failed with a 401, 403, 404, 400, 5xx, timeout, *)
(* connection or TLS failure, a failure that is not the last permitted       *)
(* attempt is followed by the sleep and then by the next attempt, and the    *)
(* call that is not interrupted in a sleep ends only after exactly           *)
(* max_retries attempts and max_retries - 1 sleeps.                          *)
C22_RetryUniformOverFailureKinds ==
    (/\ IsMake
     /\ trace # <<>>
     /\ \A i \in 1..Len(trace) : ListedFailure(trace[i]))
    => (/\ Len(trace) <= args.max_retries
        /\ Len(trace) < args.max_retries
           => (\/ pc = "sleep" /\ Len(sleeps) = Len(trace) - 1
               \/ pc = "loop" /\ Len(sleeps) = Len(trace)
               \/ pc = "done" /\ Interrupted /\ Len(sleeps) = Len(trace))
        /\ (pc = "done" /\ ~Interrupted)
           => (/\ outcome.type = "raise"
               /\ Len(trace) = args.max_retries
               /\ Len(sleeps) = args.max_retries - 1))

C22_Witness ==
    /\ IsMake
    /\ pc = "done"
    /\ args.max_retries = 3
    /\ Len(trace) = 3
    /\ HasStatus(trace[1], 401)
    /\ HasStatus(trace[2], 400)
    /\ trace[3].t = "exception"
    /\ trace[3].kind = "SSLError"
    /\ Len(sleeps) = 2

IsPost == IsMake /\ args.method = "POST"

(* C23: a POST call is retried exactly like a GET.  Every attempt of a       *)
(* make_api_request call with method POST sends the same requests.post       *)
(* request again, with no header or parameter that tells a retry from the    *)
(* first sending; a call whose attempts all fail sends it max_retries times, *)
(* and the number of attempts and the way the call ends are those of the GET *)
(* call with the same arguments and the same per-attempt results.            *)
C23_PostRetriedLikeGet ==
    IsPost =>
        /\ Len(sent) = Len(trace)
        /\ sent # <<>> => Len(sent) <= args.max_retries
        /\ \A i \in 1..Len(sent) :
               /\ sent[i].call = "requests.post"
               /\ sent[i] = sent[1]
               /\ DOMAIN sent[i].headers = {"Authorization", "Accept", "ContentType"}
        /\ (RaisedError /\ trace # <<>>) => Len(sent) = args.max_retries
        /\ RanOnTrace
           => call_result([args EXCEPT !.method = "GET"], trace, 0, None)
              = [attempts |-> Len(trace), ends |-> Ends]

C23_Witness ==
    /\ IsPost
    /\ pc = "done"
    /\ args.max_retries = 3
    /\ Len(sent) = 3
    /\ sent[3] = sent[1]
    /\ outcome.type = "return"

(* C24: at most one request is in flight at any time.  A call sends one     *)
(* request per step and has the result of every request it sent before it    *)
(* sends the next; attempt k+1 is started only when attempt k has its result *)
(* and the sleep after it is over, and no request is sent once the call has  *)
(* returned or raised.                                                       *)
C24_OneRequestAtATime ==
    [][/\ Len(sent') <= Len(sent) + 1
       /\ Len(trace') = Len(sent')
       /\ Len(sent') = Len(sent) + 1
          => (/\ pc = "loop"
              /\ outcome = NoOutcome
              /\ Len(trace) = Len(sent)
              /\ Len(sleeps) = Len(sent))
       /\ outcome # NoOutcome => sent' = sent]_vars

C24_Witness ==
    /\ pc = "done"
    /\ Len(sent) = 3
    /\ Len(trace) = 3
    /\ Len(sleeps) = 2

IsInterrupt(r) == r.t = "exception" /\ r.kind = "KeyboardInterrupt"

\* an interrupt in a network attempt is the last thing the call did: it is not
\* recorded as the attempt's failure and no sleep follows it; a call that ended by
\* an interrupt ended in that attempt or in the sleep before a further attempt
C25_Aborted ==
    pc # "off" =>
        /\ \A i \in 1..Len(trace) :
               IsInterrupt(trace[i])
               => (/\ i = Len(trace)
                   /\ pc = "done"
                   /\ Interrupted
                   /\ Len(sleeps) = i - 1
                   /\ last_exception = IF i = 1 THEN None ELSE Recorded(i - 1))
        /\ Interrupted
           => (/\ pc = "done"
               /\ outcome.error.kind \notin TypedKinds
               /\ \/ trace # <<>> /\ IsInterrupt(trace[Len(trace)])
                  \/ (/\ sleeps # <<>>
                      /\ Len(sleeps) < args.max_retries
                      /\ last_exception # None
                      /\ Supported(args)
                         => (/\ Len(sleeps) = Len(trace)
                             /\ last_exception = Recorded(Len(trace)))))

(* C25: a user interrupt during a network attempt or during the sleep        *)
(* between retries aborts make_api_request and search_issues at once: it is  *)
(* not recorded as a retryable failure, no further attempt or sleep follows  *)
(* it, and the caller gets the interrupt, not a typed Jira error.            *)
C25_InterruptAbortsTheCall ==
    /\ []C25_Aborted
    /\ [][Interrupted => UNCHANGED <<sent, trace, sleeps, outcome>>]_vars

C25_Witness ==
    /\ pc = "done"
    /\ Interrupted
    /\ args.max_retries = 3
    /\ Len(trace) = 2
    /\ IsInterrupt(trace[2])
    /\ Len(sleeps) = 1

(* C26: for a method other than GET or POST, make_api_request never sends  *)
(* a network request on any attempt, and the call ends by raising an error,  *)
(* never by returning a value.                                               *)
C26_UnsupportedMethod_NoRequest ==
    (IsMake /\ args.method \notin {"GET", "POST"})
    => (/\ sent = <<>>
        /\ trace = <<>>
        /\ pc = "done" => outcome.type = "raise")

C26_Witness ==
    /\ IsMake
    /\ args.method = "PUT"
    /\ args.max_retries = 3
    /\ pc = "done"
    /\ Len(sleeps) = 2
    /\ outcome.type = "raise"
    /\ outcome.error.kind = "JiraAPIError"
    /\ Mentions(outcome.error.message, "Unsupported HTTP method: ")

(* C27: with max_retries <= 0 and valid credentials, make_api_request and   *)
(* search_issues send no request and perform no sleep, and the call ends by  *)
(* raising, never by returning a value.                                      *)
C27_NoRetries_RaisesWithoutRequest ==
    (/\ pc # "off"
     /\ args.max_retries <= 0
     /\ validate_inputs(args.jira_url, args.jira_token).ok)
    => (/\ sent = <<>>
        /\ trace = <<>>
        /\ sleeps = <<>>
        /\ pc \in {"entry", "loop", "done"}
        /\ pc = "done" => outcome.type = "raise")

C27_Witness ==
    /\ pc = "done"
    /\ args.fn = "search_issues"
    /\ args.max_retries = -1
    /\ validate_inputs(args.jira_url, args.jira_token).ok
    /\ outcome.type = "raise"
    /\ outcome.error.kind = "TypeError"

\* the positions in api_calls of the POST calls / of the search calls of the run
Posts == {i \in DOMAIN api_calls :
             IF api_calls[i].fn = "make_api_request" THEN api_calls[i].method = "POST" ELSE FALSE}
Searches == {i \in DOMAIN api_calls : api_calls[i].fn = "search_issues"}

\* the last answer main took from a prompt
Answered(prompt, value) == typed.at = prompt /\ typed.value = value

(* C28: in the issue-creation flow the POST to the 'issue' endpoint is sent  *)
(* only after the user has answered 'y' at the confirmation prompt, and at   *)
(* most one POST call is made per run: a run that ended on the answer 'n',   *)
(* on a cancelled issue-type selection, on an empty project key or on a      *)
(* failed metadata fetch has made no POST call.                              *)
C28_PostOnlyAfterConfirmation ==
    IsCreate(script) =>
        /\ Cardinality(Posts) <= 1
        /\ cpc = "post" => Answered("confirm", <<"y">>)
        /\ \A i \in Posts :
               /\ i = Len(api_calls)
               /\ api_calls[i].endpoint = <<"issue">>
               /\ Answered("confirm", <<"y">>)
        /\ \A i \in DOMAIN api_calls \ Posts : api_calls[i].endpoint # <<"issue">>
        /\ (/\ Ended
            /\ \/ Answered("confirm", <<"n">>)
               \/ Answered("select_type", <<"q">>)
               \/ Answered("select_type", <<"Q">>)
               \/ Answered("project_key", <<>>)
               \/ Len(api_calls) < 3)
           => Posts = {}

C28_Witness ==
    /\ IsCreate(script)
    /\ Ended
    /\ Posts = {3}
    /\ Answered("confirm", <<"y">>)
    /\ exit.code = 0

(* C29: in the search flow search_issues is never called with an empty JQL   *)
(* string: when no project key, no user filter and no status are chosen, the *)
(* run ends without any search call.                                         *)
C29_NoSearchWithEmptyJql ==
    (script # "none" /\ ~IsCreate(script)) =>
        /\ \A i \in Searches : api_calls[i].jql_query # <<>>
        /\ Searches # {} => api_calls[Len(api_calls)].jql_query = join(jql_clauses)
        /\ (typed.at = "status" /\ jql_clauses = <<>>)
           => (Ended /\ api_calls = <<>>)

C29_Witness ==
    /\ script = "jira_list.py"
    /\ Ended
    /\ ~interrupted
    /\ project_key = <<>>
    /\ Answered("status", <<>>)
    /\ jql_clauses = <<>>
    /\ api_calls = <<>>

====
